---- MODULE Spec2Model ----
(***************************************************************************)
(* Model of test/util/nc.py, the small "netcat" used by the chasquid       *)
(* tests: connect to (host, port); with -z exit right after connecting;   *)
(* otherwise copy stdin -> socket in a daemon thread and socket -> stdout *)
(* in the main thread.                                                     *)
(*                                                                         *)
(* The socket is wrapped by sock.makefile('rw', buffering=1,              *)
(* encoding="utf-8"): ONE TextIOWrapper (strict UTF-8, universal          *)
(* newlines) over a BufferedRWPair, used by both threads.  The model      *)
(* keeps the parts of that object the two loops touch: the decoded but    *)
(* not yet returned characters, the newline decoder's pending CR, the     *)
(* pending bytes of the write side.                                       *)
(*                                                                         *)
(* Bytes are drawn from a four-letter alphabet: "a" (an ordinary         *)
(* character), "LF", "CR" and "BAD" (a byte that is not valid UTF-8,      *)
(* such as 0xFF).                                                         *)
(*                                                                         *)
(* The second part models test/util/smtpc.py (specification SmtpSpec):    *)
(* read the message from stdin, open an SMTP session, STARTTLS, log in    *)
(* when a user is given, submit the message with its line endings turned  *)
(* into CR LF, quit.  Each program leaves the other's variables alone.    *)
(***************************************************************************)
EXTENDS Integers, Sequences, FiniteSets, TLC

\* ------------------------------------------------------------------ bounds
MaxPeerBytes == 3      \* bytes the peer sends during one run
MaxStdinLines == 2     \* lines stdin delivers during one run

Byte == {"a", "LF", "CR", "BAD"}

\* The lines stdin can deliver.  sys.stdin splits at LF only (newline="\n"
\* on POSIX), so a line is LF-terminated, or is the unterminated tail of
\* the input right before end-of-input.
FullLines == {<<"a", "LF">>, <<"BAD", "LF">>}
TailLines == {<<"a">>}

\* ----------------------------------------------------------- pure helpers
IsPrefix(s, t) == Len(s) <= Len(t) /\ SubSeq(t, 1, Len(s)) = s

Has(s, b) == \E i \in 1..Len(s) : s[i] = b

RECURSIVE Flatten(_)
Flatten(ss) == IF ss = <<>> THEN <<>> ELSE Head(ss) \o Flatten(Tail(ss))

\* Position of the first LF of s, 0 when there is none.
FirstLF(s) == IF Has(s, "LF") THEN CHOOSE i \in 1..Len(s) :
                   s[i] = "LF" /\ \A j \in 1..(i-1) : s[j] # "LF"
              ELSE 0

\* IncrementalNewlineDecoder with translate=True: "\r\n" and "\r" -> "\n".
RECURSIVE Translate(_)
Translate(s) ==
    IF s = <<>> THEN <<>>
    ELSE IF s[1] = "CR"
         THEN IF Len(s) > 1 /\ s[2] = "LF"
              THEN <<"LF">> \o Translate(SubSeq(s, 3, Len(s)))
              ELSE <<"LF">> \o Translate(Tail(s))
         ELSE <<s[1]>> \o Translate(Tail(s))

\* One call decoder.decode(chunk, final) of the wrapper's decoder, started
\* with the pending-CR flag pcr.  A trailing CR is held back unless final.
DecInput(pcr, chunk) == IF pcr THEN <<"CR">> \o chunk ELSE chunk
DecHolds(pcr, chunk, final) ==
    LET s == DecInput(pcr, chunk) IN ~final /\ s # <<>> /\ s[Len(s)] = "CR"
DecOut(pcr, chunk, final) ==
    LET s == DecInput(pcr, chunk) IN
    IF DecHolds(pcr, chunk, final) THEN Translate(SubSeq(s, 1, Len(s) - 1))
    ELSE Translate(s)

\* Command lines, by their positional arguments host and port:
\*   "ok"      host present, port the decimal of an integer in 1..65535
\*   "nonint"  port is not the text of an integer ("abc", "1.5")
\*   "missing" host or port is absent
\*   "wrap"    port is P + k * 65536 for a P in 1..65535 and a k >= 1
\*   "zero"    port is 0 or negative
\*   "huge"    port does not fit a C int (99999999999999999999)
ArgvKinds == {"ok", "nonint", "missing", "wrap", "zero", "huge"}

\* ------------------------------------------------------------------ state
VARIABLES
    argv,         \* the command line, by what its host and port are
    z,            \* args.z
    mainPc,       \* position of the main thread
    t1Pc,         \* position of the thread t1 (stdin_to_sock)
    status,       \* exit status of the process, -1 while it runs
    conn,         \* "none" | "ok" | "failed": outcome of create_connection
    sockState,    \* "none" | "open" | "closed": the socket of this process
    attempts,     \* number of calls of create_connection
    stdinEOF,     \* stdin has delivered its last line
    stdinRead,    \* lines the input loop has read, in order
    curIn,        \* the variable 'line' of stdin_to_sock
    wbuf,         \* bytes written to fd and not yet flushed to the socket
    sockSent,     \* bytes sent on the socket, in order
    shutWr,       \* the send half has been shut down
    shutCalls,    \* number of calls of sock.shutdown
    peerSent,     \* number of bytes the peer has sent
    peerFin,      \* the peer has closed the connection (FIN)
    peerRst,      \* the peer has aborted the connection (RST)
    peerEarly,    \* the peer sent or closed before it saw our half-close
    sockBroken,   \* the socket has an error pending, sends fail
    rcvBuf,       \* bytes arrived from the peer, not yet read by recv
    rcvdAll,      \* bytes recv has returned to the output loop, in order
    decodedChars, \* fd's decoded characters not yet returned by readline
    pendingcr,    \* fd's newline decoder holds back a CR
    remaining,    \* readline's unterminated line so far (a local)
    curOut,       \* the variable 'line' of the main loop
    eofSeen,      \* the output loop has seen end-of-stream
    stdoutBuf,    \* written to sys.stdout, not yet flushed
    stdout,       \* bytes visible on stdout
    stderr,       \* names of the exceptions reported on stderr
    \* smtpc.py
    sPc,          \* position of smtpc.py, "off" when nc.py is the program
    server,       \* args.server is given (and not empty)
    user,         \* args.user: "none" (absent) | "empty" | "name"
    rawmsg,       \* the bytes of stdin
    steps,        \* calls made on the SMTP session: <<step, succeeded>>
    crlfmsg,      \* the msg argument of s.sendmail
    sErr          \* the exception that ended smtpc.py, "none" if none

vars == <<argv, z, mainPc, t1Pc, status, conn, sockState, attempts,
          stdinEOF, stdinRead, curIn, wbuf, sockSent, shutWr, shutCalls,
          peerSent, peerFin, peerRst, peerEarly, sockBroken, rcvBuf,
          rcvdAll, decodedChars, pendingcr, remaining, curOut, eofSeen,
          stdoutBuf, stdout, stderr,
          sPc, server, user, rawmsg, steps, crlfmsg, sErr>>

t1Vars   == <<t1Pc, stdinRead, curIn, wbuf, sockSent, shutWr, shutCalls>>
peerVars == <<peerSent, peerFin, peerRst, peerEarly, rcvBuf>>
rdVars   == <<rcvdAll, decodedChars, pendingcr, remaining, curOut, eofSeen>>
outVars  == <<stdoutBuf, stdout>>
smtpVars == <<sPc, server, user, rawmsg, steps, crlfmsg, sErr>>
procVars == <<argv, z, mainPc, status, conn, sockState, attempts>>

Running == status = -1

\* smtpc.py is not the program that runs.
SmtpOff ==
    /\ sPc = "off"
    /\ server = FALSE
    /\ user = "none"
    /\ rawmsg = <<>>
    /\ steps = <<>>
    /\ crlfmsg = <<>>
    /\ sErr = "none"

\* Nothing has happened yet on the socket, the streams or the threads.
NcFresh ==
    /\ t1Pc = "notstarted"
    /\ status = -1
    /\ conn = "none"
    /\ sockState = "none"
    /\ attempts = 0
    /\ stdinEOF = FALSE
    /\ stdinRead = <<>>
    /\ curIn = <<>>
    /\ wbuf = <<>>
    /\ sockSent = <<>>
    /\ shutWr = FALSE
    /\ shutCalls = 0
    /\ peerSent = 0
    /\ peerFin = FALSE
    /\ peerRst = FALSE
    /\ peerEarly = FALSE
    /\ sockBroken = FALSE
    /\ rcvBuf = <<>>
    /\ rcvdAll = <<>>
    /\ decodedChars = <<>>
    /\ pendingcr = FALSE
    /\ remaining = <<>>
    /\ curOut = <<>>
    /\ eofSeen = FALSE
    /\ stdoutBuf = <<>>
    /\ stdout = <<>>
    /\ stderr = {}

Init ==
    /\ argv \in ArgvKinds
    /\ z \in BOOLEAN
    /\ mainPc = "parse"
    /\ SmtpOff
    /\ NcFresh


\* ------------------------------------------------------- process exit
\* The process ends with the given status: the interpreter flushes
\* sys.stdout, the socket is closed with the process, and the daemon
\* thread t1 is abandoned where it is (it is never joined).
ExitWith(code) ==
    /\ status' = code
    /\ mainPc' = "exited"
    /\ sockState' = IF sockState = "open" THEN "closed" ELSE sockState
    /\ stdout' = stdout \o stdoutBuf
    /\ stdoutBuf' = <<>>

\* An exception nothing catches in the main thread: traceback on stderr,
\* exit status 1.
MainRaise(exc) ==
    /\ stderr' = stderr \cup {exc}
    /\ ExitWith(1)

\* An exception nothing catches in t1: threading's excepthook prints the
\* traceback on stderr and the thread ends; the main thread goes on.
T1Raise(exc) ==
    /\ stderr' = stderr \cup {exc}
    /\ t1Pc' = "crashed"

\* --------------------------------------------------------- main thread
\* args = ap.parse_args(): type=int refuses a port that int() refuses, a
\* missing positional argument is refused; argparse then prints the usage
\* on stderr and exits with status 2.  Every integer passes, whatever its
\* value.
ParseArgs ==
    /\ mainPc = "parse"
    /\ IF argv \in {"nonint", "missing"}
       THEN /\ stderr' = stderr \cup {"usage"}
            /\ ExitWith(2)
       ELSE /\ mainPc' = "connect"
            /\ UNCHANGED <<status, sockState, stdout, stdoutBuf, stderr>>
    /\ UNCHANGED <<smtpVars, argv, z, conn, attempts, stdinEOF, t1Vars, peerVars,
                   sockBroken, rdVars>>

\* Connect with the except clause falling through instead of exiting.
ConnectNoExit ==
    /\ mainPc = "connect"
    /\ attempts' = attempts + 1
    /\ IF argv = "huge"
       THEN MainRaise("OverflowError") /\ UNCHANGED conn
       ELSE /\ \E ok \in (IF argv = "zero" THEN {FALSE} ELSE BOOLEAN) :
                 /\ conn' = IF ok THEN "ok" ELSE "failed"
                 /\ sockState' = "open"
                 /\ mainPc' = "checkz"
            /\ UNCHANGED <<status, stdout, stdoutBuf, stderr>>
    /\ UNCHANGED <<smtpVars, argv, z, stdinEOF, t1Vars, peerVars, sockBroken, rdVars>>

\* Connect with an except clause that tries once more before giving up.
ConnectRetry ==
    /\ mainPc = "connect"
    /\ attempts' = attempts + 1
    /\ IF argv = "huge"
       THEN MainRaise("OverflowError") /\ UNCHANGED conn
       ELSE /\ \E ok \in (IF argv = "zero" THEN {FALSE} ELSE BOOLEAN) :
                 IF ok
                 THEN /\ conn' = "ok"
                      /\ sockState' = "open"
                      /\ mainPc' = "checkz"
                      /\ UNCHANGED <<status, stdout, stdoutBuf>>
                 ELSE /\ conn' = "failed"
                      /\ IF attempts = 0
                         THEN UNCHANGED <<mainPc, status, sockState, stdout,
                                          stdoutBuf>>
                         ELSE ExitWith(1)
            /\ UNCHANGED stderr
    /\ UNCHANGED <<smtpVars, argv, z, stdinEOF, t1Vars, peerVars, sockBroken, rdVars>>

\* try: sock = socket.create_connection(address); fd = sock.makefile(...)
\* except OSError: sys.exit(1)
\* The port goes to getaddrinfo and connect as it is: one that does not
\* fit a C int raises OverflowError, which is no OSError; any other is
\* reduced modulo 65536, so "wrap" connects to the port P and "zero" to a
\* port nothing listens on.
Connect ==
    /\ mainPc = "connect"
    /\ attempts' = attempts + 1
    /\ IF argv = "huge"
       THEN MainRaise("OverflowError") /\ UNCHANGED conn
       ELSE /\ \E ok \in (IF argv = "zero" THEN {FALSE} ELSE BOOLEAN) :
                 IF ok
                 THEN /\ conn' = "ok"
                      /\ sockState' = "open"
                      /\ mainPc' = "checkz"
                      /\ UNCHANGED <<status, stdout, stdoutBuf>>
                 ELSE /\ conn' = "failed"
                      /\ ExitWith(1)
            /\ UNCHANGED stderr
    /\ UNCHANGED <<smtpVars, argv, z, stdinEOF, t1Vars, peerVars, sockBroken, rdVars>>

\* CheckZ with the test of args.z lost: the relay starts in every mode.
CheckZIgnored ==
    /\ mainPc = "checkz"
    /\ mainPc' = "start"
    /\ UNCHANGED <<smtpVars, z, argv, status, sockState, stdout, stdoutBuf, conn, attempts,
                   stdinEOF, t1Vars, peerVars, sockBroken, rdVars, stderr>>

\* if args.z: sys.exit(0)
CheckZ ==
    /\ mainPc = "checkz"
    /\ IF z
       THEN ExitWith(0)
       ELSE /\ mainPc' = "start"
            /\ UNCHANGED <<status, sockState, stdout, stdoutBuf>>
    /\ UNCHANGED <<smtpVars, z, argv, conn, attempts, stdinEOF, t1Vars, peerVars, sockBroken,
                   rdVars, stderr>>

\* t1 = threading.Thread(target=stdin_to_sock, daemon=True); t1.start()
StartT1 ==
    /\ mainPc = "start"
    /\ t1Pc' = "read"
    /\ mainPc' = "readline"
    /\ UNCHANGED <<smtpVars, z, argv, status, conn, sockState, attempts, stdinEOF, stdinRead,
                   curIn, wbuf, sockSent, shutWr, shutCalls, peerVars,
                   sockBroken, rdVars, outVars, stderr>>

\* readline, given decoded characters d to add to the unterminated line
\* rem: return the line up to the first LF and keep the rest in
\* decoded_chars, or put everything aside and go for the next chunk.
TakeLine(rem, d) ==
    LET pos == FirstLF(d) IN
    IF pos > 0
    THEN /\ curOut' = rem \o SubSeq(d, 1, pos)
         /\ decodedChars' = SubSeq(d, pos + 1, Len(d))
         /\ remaining' = <<>>
         /\ mainPc' = "write"
    ELSE /\ remaining' = rem \o d
         /\ decodedChars' = <<>>
         /\ curOut' = curOut
         /\ mainPc' = "recv"

\* for line in fd: the part of readline that runs on the characters fd
\* already holds, up to the point where it has a line or must read.
M_ReadLine ==
    /\ mainPc = "readline"
    /\ TakeLine(remaining, decodedChars)
    /\ UNCHANGED <<smtpVars, z, argv, status, conn, sockState, attempts, stdinEOF, t1Vars,
                   peerVars, sockBroken, rcvdAll, pendingcr, eofSeen,
                   outVars, stderr>>

\* for line in fd: read_chunk.  recv blocks until bytes, end-of-stream or
\* an error are there; the bytes are decoded (strict UTF-8, then the
\* newline translation) and readline goes on with the result.
M_Recv ==
    /\ mainPc = "recv"
    /\ \/ /\ rcvBuf # <<>>
          /\ rcvBuf' = <<>>
          /\ rcvdAll' = rcvdAll \o rcvBuf
          /\ IF Has(rcvBuf, "BAD")
             THEN /\ MainRaise("UnicodeDecodeError")
                  /\ UNCHANGED <<decodedChars, pendingcr, remaining, curOut,
                                 eofSeen>>
             ELSE /\ pendingcr' = DecHolds(pendingcr, rcvBuf, FALSE)
                  /\ TakeLine(remaining, DecOut(pendingcr, rcvBuf, FALSE))
                  /\ UNCHANGED <<status, sockState, outVars, stderr, eofSeen>>
       \/ /\ rcvBuf = <<>>
          /\ peerRst
          /\ MainRaise("ConnectionResetError")
          /\ UNCHANGED <<rcvBuf, rdVars>>
       \/ /\ rcvBuf = <<>>
          /\ peerFin
          /\ eofSeen' = TRUE
          /\ pendingcr' = FALSE
          /\ UNCHANGED <<rcvBuf, rcvdAll>>
          /\ IF pendingcr
             THEN \* the decoder's final call releases the CR it held
                  /\ TakeLine(remaining, DecOut(TRUE, <<>>, TRUE))
                  /\ UNCHANGED <<status, sockState, outVars, stderr>>
             ELSE IF remaining # <<>>
             THEN \* the unterminated last line
                  /\ curOut' = remaining
                  /\ remaining' = <<>>
                  /\ mainPc' = "write"
                  /\ UNCHANGED <<decodedChars, status, sockState, outVars,
                                 stderr>>
             ELSE \* the loop ends, and the script with it
                  /\ ExitWith(0)
                  /\ UNCHANGED <<decodedChars, remaining, curOut, stderr>>
    /\ UNCHANGED <<smtpVars, z, argv, conn, attempts, stdinEOF, t1Vars, peerSent, peerFin,
                   peerRst, peerEarly, sockBroken>>

\* sys.stdout.write(line)
M_Write ==
    /\ mainPc = "write"
    /\ stdoutBuf' = stdoutBuf \o curOut
    /\ mainPc' = "flush"
    /\ UNCHANGED <<smtpVars, z, argv, status, conn, sockState, attempts, stdinEOF, t1Vars,
                   peerVars, sockBroken, rdVars, stdout, stderr>>

\* sys.stdout.flush()
M_Flush ==
    /\ mainPc = "flush"
    /\ stdout' = stdout \o stdoutBuf
    /\ stdoutBuf' = <<>>
    /\ mainPc' = "readline"
    /\ UNCHANGED <<smtpVars, z, argv, status, conn, sockState, attempts, stdinEOF, t1Vars,
                   peerVars, sockBroken, rdVars, stderr>>

MainStep == ParseArgs \/ Connect \/ CheckZ \/ StartT1 \/ M_ReadLine \/ M_Recv \/ M_Write
            \/ M_Flush

\* ----------------------------------------------- thread t1: stdin_to_sock
\* for line in sys.stdin: the next line, or the end of the loop at
\* end-of-input; the thread stays here while stdin has neither.  What
\* stdin delivers is the environment's choice: a full line, a last line
\* without a newline (end-of-input follows it), or end-of-input.  A line
\* that is not UTF-8 raises UnicodeDecodeError here when sys.stdin
\* decodes strictly (a UTF-8 locale); under the C locale sys.stdin
\* decodes with surrogateescape and the line is handed on.
T1_Read ==
    /\ Running
    /\ t1Pc = "read"
    /\ \/ /\ ~stdinEOF
          /\ Len(stdinRead) < MaxStdinLines
          /\ \E l \in FullLines \cup TailLines :
               /\ stdinEOF' = (l \in TailLines)
               /\ \/ /\ stdinRead' = Append(stdinRead, l)
                     /\ curIn' = l
                     /\ t1Pc' = "write"
                     /\ UNCHANGED stderr
                  \/ /\ Has(l, "BAD")
                     /\ T1Raise("UnicodeDecodeError")
                     /\ UNCHANGED <<stdinRead, curIn>>
       \/ /\ stdinEOF' = TRUE
          /\ t1Pc' = "shutdown"
          /\ UNCHANGED <<stdinRead, curIn, stderr>>
    /\ UNCHANGED <<smtpVars, procVars, wbuf, sockSent, shutWr, shutCalls, peerVars,
                   sockBroken, rdVars, outVars>>

\* fd.write(line): TextIOWrapper.write encodes the line (strict UTF-8, a
\* surrogate raises UnicodeEncodeError), keeps the bytes pending (fd is
\* not line buffered: buffering=1 only sizes the BufferedRWPair), and
\* then drops fd's decoded characters and resets its decoder.
T1_Write ==
    /\ Running
    /\ t1Pc = "write"
    /\ IF Has(curIn, "BAD")
       THEN /\ T1Raise("UnicodeEncodeError")
            /\ UNCHANGED <<wbuf, decodedChars, pendingcr>>
       ELSE /\ wbuf' = wbuf \o curIn
            /\ decodedChars' = <<>>
            /\ pendingcr' = FALSE
            /\ t1Pc' = "flush"
            /\ UNCHANGED stderr
    /\ UNCHANGED <<smtpVars, procVars, stdinEOF, stdinRead, curIn, sockSent, shutWr,
                   shutCalls, peerVars, sockBroken, rcvdAll, remaining,
                   curOut, eofSeen, outVars>>

\* T1_Flush without the flush: the bytes stay pending in fd.
T1_FlushKeeps ==
    /\ Running
    /\ t1Pc = "flush"
    /\ t1Pc' = "read"
    /\ UNCHANGED <<smtpVars, procVars, stdinEOF, stdinRead, curIn, wbuf, sockSent,
                   shutWr, shutCalls, peerVars, sockBroken, rdVars, outVars,
                   stderr>>

\* fd.flush(): the pending bytes go to the socket.  send fails with an
\* OSError (EPIPE, ECONNRESET) once the socket has an error pending; a
\* send to a peer that has closed is accepted and answered by a reset.
T1_Flush ==
    /\ Running
    /\ t1Pc = "flush"
    /\ IF sockBroken
       THEN /\ T1Raise("OSError")
            /\ UNCHANGED <<wbuf, sockSent, sockBroken>>
       ELSE /\ sockSent' = sockSent \o wbuf
            /\ wbuf' = <<>>
            /\ sockBroken' = peerFin
            /\ t1Pc' = "read"
            /\ UNCHANGED stderr
    /\ UNCHANGED <<smtpVars, procVars, stdinEOF, stdinRead, curIn, shutWr, shutCalls,
                   peerVars, rdVars, outVars>>

\* T1_Shutdown without the try/except: the OSError of a failing shutdown
\* ends the thread like any other exception.
T1_ShutdownRaises ==
    /\ Running
    /\ t1Pc = "shutdown"
    /\ shutCalls' = shutCalls + 1
    /\ shutWr' = ~sockBroken
    /\ IF sockBroken THEN T1Raise("OSError")
                     ELSE t1Pc' = "done" /\ UNCHANGED stderr
    /\ UNCHANGED <<smtpVars, procVars, stdinEOF, stdinRead, curIn, wbuf, sockSent,
                   peerVars, sockBroken, rdVars, outVars>>

\* try: sock.shutdown(socket.SHUT_WR) except OSError: pass
T1_Shutdown ==
    /\ Running
    /\ t1Pc = "shutdown"
    /\ shutCalls' = shutCalls + 1
    /\ shutWr' = ~sockBroken
    /\ t1Pc' = "done"
    /\ UNCHANGED <<smtpVars, procVars, stdinEOF, stdinRead, curIn, wbuf, sockSent,
                   peerVars, sockBroken, rdVars, outVars, stderr>>

T1Step == T1_Read \/ T1_Write \/ T1_Flush \/ T1_Shutdown

\* ------------------------------------------------------- the environment
PeerUp == Running /\ sockState = "open" /\ ~peerFin /\ ~peerRst

\* One more byte of what the peer sends arrives.  recv returns all the
\* bytes that have arrived, so a segment of several bytes is several of
\* these steps with no recv in between.
PeerSend ==
    /\ PeerUp
    /\ peerSent < MaxPeerBytes
    /\ \E c \in Byte : rcvBuf' = Append(rcvBuf, c)
    /\ peerSent' = peerSent + 1
    /\ peerEarly' = (peerEarly \/ ~shutWr)
    /\ UNCHANGED <<smtpVars, procVars, stdinEOF, t1Vars, peerFin, peerRst, sockBroken,
                   rdVars, outVars, stderr>>

\* The peer closes the connection: end-of-stream after the bytes sent.
PeerClose ==
    /\ PeerUp
    /\ peerFin' = TRUE
    /\ peerEarly' = (peerEarly \/ ~shutWr)
    /\ UNCHANGED <<smtpVars, procVars, stdinEOF, t1Vars, peerSent, peerRst, sockBroken,
                   rcvBuf, rdVars, outVars, stderr>>

\* The peer aborts the connection (reset).  Bytes that arrived and were
\* not read yet may or may not still be readable.
PeerReset ==
    /\ PeerUp
    /\ peerRst' = TRUE
    /\ sockBroken' = TRUE
    /\ rcvBuf' \in {rcvBuf, <<>>}
    /\ peerEarly' = (peerEarly \/ ~shutWr)
    /\ UNCHANGED <<smtpVars, procVars, stdinEOF, t1Vars, peerSent, peerFin, rdVars,
                   outVars, stderr>>

EnvStep == PeerSend \/ PeerClose \/ PeerReset

Next == MainStep \/ T1Step \/ EnvStep

Spec == Init /\ [][Next]_vars

\* =========================================================== smtpc.py
MaxMsgLen == 4         \* bytes of the message on stdin

\* Messages on stdin.
Msgs == UNION {[1..n -> Byte] : n \in 0..MaxMsgLen}

ncVars == <<procVars, stdinEOF, t1Vars, peerVars, sockBroken, rdVars,
            outVars, stderr>>

\* re.sub with the pattern \n alone: what "Replace \n with \r\n" says.
RECURSIVE CrlfNaive(_)
CrlfNaive(s) ==
    IF s = <<>> THEN <<>>
    ELSE IF Head(s) = "LF" THEN <<"CR", "LF">> \o CrlfNaive(Tail(s))
    ELSE <<Head(s)>> \o CrlfNaive(Tail(s))

\* re.sub(br'(?:\r\n|\n|\r(?!\n))', b"\r\n", rawmsg): the scan goes left
\* to right, each match is replaced and the scan goes on behind it, any
\* other byte is copied.
RECURSIVE Crlf(_)
Crlf(s) ==
    IF s = <<>> THEN <<>>
    ELSE IF Head(s) = "CR" /\ Len(s) > 1 /\ s[2] = "LF"
         THEN <<"CR", "LF">> \o Crlf(Tail(Tail(s)))
    ELSE IF Head(s) = "LF" THEN <<"CR", "LF">> \o Crlf(Tail(s))
    ELSE IF Head(s) = "CR" THEN <<"CR", "LF">> \o Crlf(Tail(s))
    ELSE <<Head(s)>> \o Crlf(Tail(s))

\* The calls on the SMTP session, in the order of the program text.
StepNames == <<"connect", "starttls", "login", "sendmail", "quit">>

SmtpInit ==
    /\ sPc = "read"
    /\ server \in BOOLEAN
    /\ user \in {"none", "empty", "name"}
    /\ rawmsg \in Msgs
    /\ steps = <<>>
    /\ crlfmsg = <<>>
    /\ sErr = "none"
    /\ argv = "ok"
    /\ z = FALSE
    /\ mainPc = "off"
    /\ NcFresh

\* An exception nothing catches: the program ends there.
SmtpFail(exc) ==
    /\ sPc' = "failed"
    /\ sErr' = exc

\* One call on the session: it succeeds and the program goes on to 'next',
\* or it raises.
SmtpCall(step, canWork, next, exc) ==
    \E ok \in (IF canWork THEN BOOLEAN ELSE {FALSE}) :
        /\ steps' = Append(steps, <<step, ok>>)
        /\ IF ok THEN sPc' = next /\ UNCHANGED sErr ELSE SmtpFail(exc)

\* rawmsg = sys.stdin.buffer.read(); Parser(...).parsestr(rawmsg.decode('utf8'))
S_Read ==
    /\ sPc = "read"
    /\ IF Has(rawmsg, "BAD")
       THEN SmtpFail("UnicodeDecodeError")
       ELSE sPc' = "connect" /\ UNCHANGED sErr
    /\ UNCHANGED <<server, user, rawmsg, steps, crlfmsg, ncVars>>

\* s = smtplib.SMTP(args.server): without a server the constructor
\* connects to nothing and returns.
S_Connect ==
    /\ sPc = "connect"
    /\ IF server
       THEN SmtpCall("connect", TRUE, "starttls", "SMTPConnectError")
       ELSE sPc' = "starttls" /\ UNCHANGED <<steps, sErr>>
    /\ UNCHANGED <<server, user, rawmsg, crlfmsg, ncVars>>

\* S_StartTLS with a starttls that returns the refusal instead of raising.
S_StartTLSReturns ==
    /\ sPc = "starttls"
    /\ \E ok \in (IF server THEN BOOLEAN ELSE {FALSE}) :
         /\ steps' = Append(steps, <<"starttls", ok>>)
         /\ sPc' = "login"
    /\ UNCHANGED <<server, user, rawmsg, crlfmsg, sErr, ncVars>>

\* s.starttls(): raises when the session is not connected, when the server
\* does not offer or refuses STARTTLS, when the handshake fails.
S_StartTLS ==
    /\ sPc = "starttls"
    /\ SmtpCall("starttls", server, "login", "SMTPException")
    /\ UNCHANGED <<server, user, rawmsg, crlfmsg, ncVars>>

\* if args.user: s.login(args.user, args.password)
S_Login ==
    /\ sPc = "login"
    /\ IF user = "name"
       THEN SmtpCall("login", TRUE, "sendmail", "SMTPAuthenticationError")
       ELSE sPc' = "sendmail" /\ UNCHANGED <<steps, sErr>>
    /\ UNCHANGED <<server, user, rawmsg, crlfmsg, ncVars>>

\* crlfmsg = re.sub(...); s.sendmail(from_addr=msg['from'],
\* to_addrs=msg.get_all('to'), msg=crlfmsg, mail_options=['SMTPUTF8']):
\* raises for a missing or refused sender, recipients or data.
S_SendMail ==
    /\ sPc = "sendmail"
    /\ crlfmsg' = Crlf(rawmsg)
    /\ SmtpCall("sendmail", TRUE, "quit", "SMTPException")
    /\ UNCHANGED <<server, user, rawmsg, ncVars>>

\* s.quit()
S_Quit ==
    /\ sPc = "quit"
    /\ SmtpCall("quit", TRUE, "done", "SMTPServerDisconnected")
    /\ UNCHANGED <<server, user, rawmsg, crlfmsg, ncVars>>

SmtpNext == S_Read \/ S_Connect \/ S_StartTLS \/ S_Login \/ S_SendMail
            \/ S_Quit

SmtpSpec == SmtpInit /\ [][SmtpNext]_vars


TypeOK ==
    /\ argv \in ArgvKinds
    /\ z \in BOOLEAN
    /\ mainPc \in {"off", "parse", "connect", "checkz", "start", "readline", "recv", "write",
                   "flush", "exited"}
    /\ t1Pc \in {"notstarted", "read", "write", "flush", "shutdown", "done",
                 "crashed"}
    /\ status \in {-1, 0, 1, 2}
    /\ conn \in {"none", "ok", "failed"}
    /\ sockState \in {"none", "open", "closed"}
    /\ shutCalls \in 0..1

\* ======================================================== properties
Relay == ~z /\ conn = "ok"
Exited == mainPc = "exited"
Written == stdout \o stdoutBuf      \* everything written to sys.stdout

\* C3: when the connection cannot be established the process has ended
\* with status 1, has written nothing to stdout or stderr, has started
\* neither copy loop and has read nothing from stdin, with -z or without.
ConnFailureSilent ==
    conn = "failed" =>
        /\ Exited /\ status = 1
        /\ Written = <<>> /\ stderr = {}
        /\ t1Pc = "notstarted" /\ rcvdAll = <<>> /\ eofSeen = FALSE
        /\ stdinRead = <<>> /\ ~stdinEOF
        /\ sockSent = <<>> /\ wbuf = <<>> /\ sockState = "none"

ConnFailureSeen == conn = "failed" /\ ~z /\ attempts = 1

\* C4: with -z nothing is ever read from stdin, sent on the socket, read
\* from the socket or written to stdout and neither loop starts; once the
\* connection is established the process ends with status 0 and the
\* socket is closed.
ProbeNoRelay ==
    z => /\ stdinRead = <<>> /\ ~stdinEOF
         /\ sockSent = <<>> /\ wbuf = <<>> /\ shutCalls = 0
         /\ rcvdAll = <<>> /\ Written = <<>>
         /\ t1Pc = "notstarted"
         /\ mainPc \in {"off", "parse", "connect", "checkz", "exited"}
         /\ (conn = "ok" /\ Exited =>
                status = 0 /\ sockState = "closed" /\ stderr = {})

\* The peer has greeted, the probe has ended and left the greeting unread.
ProbeSucceeded == z /\ conn = "ok" /\ Exited /\ rcvBuf # <<>>

\* C10: sock.shutdown is called at most once, only after stdin has
\* reached end-of-input and when every line read from stdin has been
\* sent on the socket, none pending; the thread has ended with it, so
\* nothing is sent afterwards.
HalfCloseSequencing ==
    /\ shutCalls <= 1
    /\ (shutWr => shutCalls = 1)
    /\ (shutCalls = 1 =>
          /\ stdinEOF
          /\ wbuf = <<>>
          /\ sockSent = Flatten(stdinRead)
          /\ t1Pc = "done")

HalfClosedAfterLines ==
    shutWr /\ Len(stdinRead) >= 2 /\ Running /\ sockSent = Flatten(stdinRead)

\* C1: half-close honored.  The peer of this claim sends and closes only
\* after it has seen our half-close (~peerEarly).  With such a peer, an
\* input loop that has ended has performed the half-close, and a process
\* that has ended did so with status 0, after the half-close and after
\* end-of-stream, with everything the peer sent on stdout.
HalfCloseHonored ==
    Relay /\ ~peerEarly =>
        /\ (t1Pc \in {"done", "crashed"} => shutWr)
        /\ (Exited => /\ shutWr
                      /\ status = 0
                      /\ eofSeen
                      /\ rcvBuf = <<>>
                      /\ stdout = rcvdAll)

\* C2: when the peer has closed the connection and the process has ended
\* while the input loop was still waiting for stdin, the exit status is 0.
IndependentTermination ==
    Relay /\ peerFin /\ Exited /\ t1Pc = "read" => status = 0

\* C5: per direction, in order: the bytes sent on the socket are a prefix
\* of the bytes read from stdin, and what was written to stdout is a
\* prefix of what was received from the socket.  The receive direction is
\* stated for the runs that received no CR, where the wrapper translates
\* nothing and only order and loss are in question.
InOrderDelivery ==
    /\ IsPrefix(sockSent \o wbuf, Flatten(stdinRead))
    /\ (~Has(rcvdAll, "CR") => IsPrefix(Written, rcvdAll))

\* C6: payload transparency: what is written to stdout is, byte for byte,
\* a prefix of what was received, what is sent is a prefix of what was
\* read from stdin, and no payload makes either loop raise.  Stated for
\* the runs in which the input loop has written nothing yet, where the
\* output direction is alone with its wrapper.
PayloadTransparent ==
    /\ (stdinRead = <<>> => IsPrefix(Written, rcvdAll))
    /\ IsPrefix(sockSent \o wbuf, Flatten(stdinRead))
    /\ "UnicodeDecodeError" \notin stderr
    /\ "UnicodeEncodeError" \notin stderr

\* C7: in relay mode the process does not end before the output loop has
\* seen end-of-stream on the receive half.
ExitOnlyAfterEOS ==
    Relay /\ Exited => eofSeen

\* The input loop ended in fd.flush(): it ended by an exception with its
\* bytes still pending (the other exceptions of t1 leave nothing pending).
SendFailed == t1Pc = "crashed" /\ wbuf # <<>>

\* C8: a failed send in the input loop leaves no diagnostic on stderr.
SendErrorSilent ==
    SendFailed => "OSError" \notin stderr

\* C9: a reset of the connection ends the process like a clean close:
\* no diagnostic, status 0; once connected status 1 is unreachable.
RecvErrorAsCleanClose ==
    conn = "ok" /\ peerRst =>
        status # 1 /\ "ConnectionResetError" \notin stderr

\* C11: a sock.shutdown that fails (the socket has an error pending) ends
\* the input loop normally and changes nothing else: nothing is added to
\* stderr, the output loop's position and state, stdout and the exit
\* status stay as they are.
FailedShutdownSwallowed ==
    [][(t1Pc = "shutdown" /\ t1Pc' # "shutdown" /\ sockBroken) =>
          /\ t1Pc' = "done"
          /\ ~shutWr'
          /\ UNCHANGED <<stderr, mainPc, status, rdVars, outVars, rcvBuf,
                         sockState>>]_vars

\* The shutdown has failed, the thread has ended, the process runs on, and
\* stderr is empty.
ShutdownFailedQuietly ==
    shutCalls = 1 /\ ~shutWr /\ t1Pc = "done" /\ Running /\ stderr = {}

\* C12: exclusive ownership.  A step of the input loop changes nothing
\* the output loop reads with (the bytes arrived, fd's decoded characters
\* and decoder, the line in hand), and a step of the output loop changes
\* nothing of the send side.
ExclusiveHalves ==
    [][/\ (t1Pc' # t1Pc => UNCHANGED <<rcvBuf, rdVars>>)
       /\ (mainPc' # mainPc =>
             UNCHANGED <<wbuf, sockSent, shutWr, shutCalls>>)]_vars

\* The line the output loop has taken from fd and not yet written.
InHand == IF mainPc = "write" THEN curOut ELSE <<>>

\* C13: prompt flush.  When the input loop reads from stdin, every line it
\* read before is on the socket, none pending; when the output loop reads
\* from fd, everything it wrote is visible on stdout; and a line that has
\* arrived is on its way to stdout: what was received is what was
\* written, is in hand or is held by fd for the next readline (stated for
\* the runs that received neither CR nor an undecodable byte).
PromptFlush ==
    /\ (t1Pc = "read" => wbuf = <<>> /\ sockSent = Flatten(stdinRead))
    /\ (t1Pc \in {"write", "flush"} =>
           Flatten(stdinRead) = sockSent \o curIn)
    /\ (mainPc \in {"readline", "recv"} => stdoutBuf = <<>>)
    /\ (~Has(rcvdAll, "CR") /\ ~Has(rcvdAll, "BAD") =>
           rcvdAll = Written \o InHand \o remaining \o decodedChars)

\* The part of C13 that is about the order of write, flush and read.
FlushBeforeNextRead ==
    /\ (t1Pc = "read" => wbuf = <<>> /\ sockSent = Flatten(stdinRead))
    /\ (t1Pc \in {"write", "flush"} =>
           Flatten(stdinRead) = sockSent \o curIn)
    /\ (mainPc \in {"readline", "recv"} => stdoutBuf = <<>>)

\* C14: completeness at exit.  When the relay has ended with status 0 (the
\* peer closed, the output loop saw end-of-stream), stdout holds every
\* byte received, flushed, and nothing is left unread (stated for the
\* runs that received no CR, where the wrapper translates nothing).
CompleteAtExit ==
    Relay /\ Exited /\ status = 0 /\ ~Has(rcvdAll, "CR") =>
        stdout = rcvdAll /\ stdoutBuf = <<>> /\ rcvBuf = <<>>

\* C15: a connection is attempted only for a command line whose host is
\* present and whose port is an integer in 1..65535; every other command
\* line has ended as an argument error (usage on stderr, status 2) with
\* no call of create_connection once the arguments have been parsed.
ArgsValidatedFirst ==
    /\ (attempts > 0 => argv = "ok")
    /\ (argv # "ok" /\ mainPc # "parse" =>
          Exited /\ status = 2 /\ "usage" \in stderr /\ attempts = 0)

\* The part of C15 the code keeps: a port that is no integer and a
\* missing argument end the process with status 2 before any connection.
SyntaxRejectedFirst ==
    argv \in {"nonint", "missing"} =>
        /\ attempts = 0 /\ conn = "none" /\ sockState = "none"
        /\ (mainPc # "parse" => Exited /\ status = 2 /\ stderr = {"usage"})

\* C16: create_connection is called at most once in a run; after a failed
\* call nothing connects again, and once there is a socket it is never
\* replaced or reopened: it stays the one of the first call until it is
\* closed, and stays closed.
SingleConnection ==
    [][/\ attempts' <= 1
       /\ (attempts = 1 => UNCHANGED <<attempts, conn>>)
       /\ (conn = "failed" => UNCHANGED <<sockState, mainPc, status>>)
       /\ (sockState = "open" => sockState' \in {"open", "closed"})
       /\ (sockState = "closed" => sockState' = "closed")]_vars

\* A relay session has run on the one socket and the process has ended.
SessionOver ==
    attempts = 1 /\ conn = "ok" /\ ~z /\ Exited /\ sockState = "closed"
       /\ eofSeen

\* ------------------------------------------------ properties, smtpc.py
Rank(step) == CHOOSE i \in 1..Len(StepNames) : StepNames[i] = step
Tried(step) == \E i \in 1..Len(steps) : steps[i][1] = step
Done(step) == \E i \in 1..Len(steps) : steps[i] = <<step, TRUE>>

\* C17: the calls on the session are made in the order connect, starttls,
\* login, sendmail, quit, each at most once; login is called only when a
\* user name was given and only after starttls has succeeded; sendmail is
\* called only after starttls has succeeded, and after login has when a
\* user name was given; a call that failed is the last one of the run.
StepOrder ==
    /\ \A i, j \in 1..Len(steps) :
           i < j => Rank(steps[i][1]) < Rank(steps[j][1])
    /\ \A i \in 1..Len(steps) : i < Len(steps) => steps[i][2]
    /\ (Done("starttls") => Done("connect"))
    /\ (Tried("login") => user = "name" /\ Done("starttls"))
    /\ (Tried("sendmail") =>
           Done("starttls") /\ (user = "name" => Done("login")))
    /\ (Tried("quit") => Done("sendmail"))
    /\ (sPc = "failed" => sErr # "none")
    /\ (sPc = "done" => Done("quit"))

\* A session with authentication has run to its end.
FullSession ==
    sPc = "done" /\ user = "name" /\ Len(steps) = Len(StepNames)

\* Line endings and the other bytes of a message, read off the positions.
IsEol(b) == b \in {"CR", "LF"}
DataAt(s) == {i \in 1..Len(s) : ~IsEol(s[i])}
Endings(s) ==
    {i \in 1..Len(s) :
        \/ s[i] = "LF"
        \/ s[i] = "CR" /\ (i = Len(s) \/ s[i + 1] # "LF")}
NoBareLF(s) ==
    \A i \in 1..Len(s) : s[i] = "LF" => i > 1 /\ s[i - 1] = "CR"
NoBareCR(s) ==
    \A i \in 1..Len(s) : s[i] = "CR" => i < Len(s) /\ s[i + 1] = "LF"
Before(S, i) == Cardinality({k \in S : k < i})

\* out is in with each line ending replaced by one CR LF: every other
\* byte is kept, behind two bytes for each ending before it, and the rest
\* of out is CR LF pairs.
Normalized(in, out) ==
    /\ Len(out) = Cardinality(DataAt(in)) + 2 * Cardinality(Endings(in))
    /\ \A i \in DataAt(in) :
           out[Before(DataAt(in), i) + 2 * Before(Endings(in), i) + 1] = in[i]
    /\ Cardinality(DataAt(out)) = Cardinality(DataAt(in))
    /\ NoBareLF(out) /\ NoBareCR(out)

\* C18: the message given to sendmail is the bytes of stdin with every
\* line ending (CR LF, LF alone, CR alone) replaced by one CR LF and
\* nothing else changed; it has no LF without a CR before it and no CR
\* without an LF behind it; a message with CR LF endings only is given
\* unchanged; normalizing the result again changes nothing.
CrlfNormalization ==
    Tried("sendmail") =>
        /\ Normalized(rawmsg, crlfmsg)
        /\ (NoBareLF(rawmsg) /\ NoBareCR(rawmsg) => crlfmsg = rawmsg)
        /\ Crlf(crlfmsg) = crlfmsg

\* A message with a CR LF, an LF alone and a CR alone has been submitted.
MixedEndingsSent ==
    /\ Done("sendmail")
    /\ ~NoBareLF(rawmsg) /\ ~NoBareCR(rawmsg)
    /\ \E i \in 1..Len(rawmsg) - 1 : rawmsg[i] = "CR" /\ rawmsg[i + 1] = "LF"

====
